---- MODULE Spec2Model ----
(***************************************************************************)
(* iso_currency: the build script (build.rs) that compiles the currency     *)
(* table isodata.tsv into the Currency enumeration and its lookup methods,  *)
(* and the lookups of the generated code as the library (lib.rs) uses them. *)
(*                                                                          *)
(* A string is a sequence of one-character strings; its Len is the byte     *)
(* length str::len() reports (the model's alphabet is ASCII).               *)
(* An Option<T> is None or Some(v).                                         *)
(***************************************************************************)
EXTENDS Integers, Sequences, FiniteSets, TLC

VARIABLES
    table,        \* the data lines of isodata.tsv, each split on '\t'
    features,     \* the enabled cargo features (CARGO_FEATURE_<NAME> is set)
    pc,           \* where the build is: start, read, retained, nonempty,
                  \* mapped, written, registry, panic, rejected
    isodata,      \* main's Vec<IsoData>
    country_map,  \* main's HashMap<String, Vec<String>>
    generated,    \* the generated isodata.rs: the enum and the match arms
    last          \* the last call of a generated method and what it returned

vars == <<table, features, pc, isodata, country_map, generated, last>>

----------------------------------------------------------------------------
(* Bounds of the model.                                                     *)

\* the longest table, in data rows
MaxRows == 2

----------------------------------------------------------------------------
(* Option and sequence helpers.                                             *)

None == [some |-> FALSE]
Some(v) == [some |-> TRUE, val |-> v]

Range(s) == {s[i] : i \in 1..Len(s)}

\* how many elements of s equal v
RECURSIVE Count(_, _)
Count(s, v) ==
    IF s = <<>> THEN 0
    ELSE (IF Head(s) = v THEN 1 ELSE 0) + Count(Tail(s), v)

\* every sequence over S of length at most n
SeqsUpTo(S, n) == UNION {[1..k -> S] : k \in 0..n}

----------------------------------------------------------------------------
(* Strings.                                                                 *)

Digits == <<"0", "1", "2", "3", "4", "5", "6", "7", "8", "9">>
Upper == <<"A", "B", "C", "D", "E", "F", "G", "H", "I", "J", "K", "L", "M",
           "N", "O", "P", "Q", "R", "S", "T", "U", "V", "W", "X", "Y", "Z">>
Lower == <<"a", "b", "c", "d", "e", "f", "g", "h", "i", "j", "k", "l", "m",
           "n", "o", "p", "q", "r", "s", "t", "u", "v", "w", "x", "y", "z">>

IndexOf(seq, c) == CHOOSE i \in 1..Len(seq) : seq[i] = c

\* str::to_uppercase
to_uppercase(s) ==
    [i \in 1..Len(s) |->
        IF s[i] \in Range(Lower) THEN Upper[IndexOf(Lower, s[i])] ELSE s[i]]

\* str::starts_with
starts_with(s, p) == Len(s) >= Len(p) /\ SubSeq(s, 1, Len(p)) = p

\* str::split on any of the characters seps: the pieces between separators,
\* empty pieces included (the empty string splits into one empty piece)
RECURSIVE split(_, _)
split(s, seps) ==
    IF \A i \in 1..Len(s) : s[i] \notin seps THEN <<s>>
    ELSE LET i == CHOOSE k \in 1..Len(s) :
                      s[k] \in seps /\ \A j \in 1..(k - 1) : s[j] \notin seps
         IN <<SubSeq(s, 1, i - 1)>> \o split(SubSeq(s, i + 1, Len(s)), seps)

\* the strings of seq joined with sep between them
RECURSIVE Join(_, _)
Join(seq, sep) ==
    IF seq = <<>> THEN <<>>
    ELSE IF Len(seq) = 1 THEN seq[1]
    ELSE seq[1] \o sep \o Join(Tail(seq), sep)

\* u16::MAX + 1
U16Modulus == 65536

\* the value of a string of decimal digits, or U16Modulus when it is larger
RECURSIVE DigitsValue(_)
DigitsValue(s) ==
    IF s = <<>> THEN 0
    ELSE LET v == 10 * DigitsValue(SubSeq(s, 1, Len(s) - 1))
                  + (IndexOf(Digits, s[Len(s)]) - 1)
         IN IF v > U16Modulus THEN U16Modulus ELSE v

\* str::parse::<u16>: an optional '+', then one or more decimal digits whose
\* value fits 16 bits; None stands for Err
parse_u16(s) ==
    LET body == IF s # <<>> /\ s[1] = "+" THEN Tail(s) ELSE s
    IN IF body = <<>> \/ \E i \in 1..Len(body) : body[i] \notin Range(Digits)
       THEN None
       ELSE IF DigitsValue(body) >= U16Modulus THEN None
       ELSE Some(DigitsValue(body))

\* proc_macro2's Ident::new accepts a string that is a Rust identifier and
\* panics on any other
IsIdent(s) ==
    /\ s # <<>>
    /\ s # <<"_">>
    /\ s[1] \in Range(Upper) \cup Range(Lower) \cup {"_"}
    /\ \A i \in 1..Len(s) :
          s[i] \in Range(Upper) \cup Range(Lower) \cup Range(Digits) \cup {"_"}

----------------------------------------------------------------------------
(* The loader: parse_superseded, parse_flags, read_table.                   *)

SUPERSEDED == <<"s", "u", "p", "e", "r", "s", "e", "d", "e", "d">>
SPECIAL == <<"s", "p", "e", "c", "i", "a", "l">>
FUND == <<"f", "u", "n", "d">>

\* The result of a step that may panic.
Panicked == [ok |-> FALSE]
Ok(v) == [ok |-> TRUE, val |-> v]

parse_superseded(flag) ==
    IF starts_with(flag, SUPERSEDED)
    THEN LET pieces == split(flag, {"(", ")"})
         IN IF Len(pieces) < 2 THEN Panicked    \* nth(1).expect(..)
            ELSE Ok(Some(pieces[2]))
    ELSE Ok(None)

\* the loop of parse_flags over the tokens, from the state acc
RECURSIVE parse_flags_loop(_, _)
parse_flags_loop(tokens, acc) ==
    IF tokens = <<>> THEN Ok(acc)
    ELSE LET flag == Head(tokens)
         IN IF flag = SPECIAL
            THEN parse_flags_loop(Tail(tokens), [acc EXCEPT !.is_special = TRUE])
            ELSE IF flag = FUND
            THEN parse_flags_loop(Tail(tokens), [acc EXCEPT !.is_fund = TRUE])
            ELSE LET r == parse_superseded(flag)
                 IN IF ~r.ok THEN Panicked
                    ELSE parse_flags_loop(Tail(tokens),
                                          [acc EXCEPT !.is_superseded = r.val])

parse_flags(flags) ==
    parse_flags_loop(split(flags, {","}),
                     [is_special |-> FALSE, is_fund |-> FALSE,
                      is_superseded |-> None])

\* the closure of read_table on one line, already split on '\t'
read_row(columns) ==
    IF Len(columns) < 8 THEN Panicked           \* columns[7]
    ELSE
    LET flags == parse_flags(columns[8])
        numeric == parse_u16(columns[2])
        exponent == parse_u16(columns[7])
    IN IF ~flags.ok THEN Panicked
       ELSE IF ~numeric.some THEN Panicked
       ELSE IF columns[7] # <<>> /\ ~exponent.some THEN Panicked
       ELSE Ok([alpha3 |-> columns[1],
                numeric |-> numeric.val,
                name |-> columns[3],
                used_by |-> IF columns[4] = <<>> THEN None
                            ELSE Some(split(columns[4], {";"})),
                symbol |-> columns[5],
                subunit_symbol |-> IF columns[6] = <<>> THEN None
                                   ELSE Some(columns[6]),
                exponent |-> IF columns[7] = <<>> THEN None ELSE exponent,
                is_special |-> flags.val.is_special,
                is_fund |-> flags.val.is_fund,
                is_superseded |-> flags.val.is_superseded])

read_table(lines) ==
    IF \E i \in 1..Len(lines) : ~read_row(lines[i]).ok THEN Panicked
    ELSE Ok([i \in 1..Len(lines) |-> read_row(lines[i]).val])

----------------------------------------------------------------------------
(* The generator: main's retain and build_country_map, and the methods that *)
(* write the match arms of the generated code.  A variant of the generated  *)
(* enum, and a variant of the territory enum, is its identifier.            *)

\* retain with the kept rows in reverse order
RECURSIVE retain_reversed(_, _)
retain_reversed(data, enabled) ==
    IF data = <<>> THEN <<>>
    ELSE retain_reversed(Tail(data), enabled)
         \o (IF to_uppercase(Head(data).alpha3) \in enabled
             THEN <<Head(data)>> ELSE <<>>)

\* isodata.retain(|c| env::var(format!("CARGO_FEATURE_{}", ..)).is_ok())
RECURSIVE retain(_, _)
retain(data, enabled) ==
    IF data = <<>> THEN <<>>
    ELSE (IF to_uppercase(Head(data).alpha3) \in enabled
          THEN <<Head(data)>> ELSE <<>>) \o retain(Tail(data), enabled)

\* entry_push with the code put at the front of the list
entry_push_front(map, country, alpha3) ==
    IF country \in DOMAIN map
    THEN [map EXCEPT ![country] = <<alpha3>> \o @]
    ELSE [c \in DOMAIN map \cup {country} |->
             IF c = country THEN <<alpha3>> ELSE map[c]]

\* country_map.entry(country).or_insert(Vec::new()).push(alpha3)
entry_push(map, country, alpha3) ==
    IF country \in DOMAIN map
    THEN [map EXCEPT ![country] = Append(@, alpha3)]
    ELSE [c \in DOMAIN map \cup {country} |->
             IF c = country THEN <<alpha3>> ELSE map[c]]

\* the inner loop of build_country_map over one currency's used_by
RECURSIVE push_countries(_, _, _)
push_countries(map, countries, alpha3) ==
    IF countries = <<>> THEN map
    ELSE push_countries(entry_push(map, Head(countries), alpha3),
                        Tail(countries), alpha3)

RECURSIVE build_country_map_from(_, _)
build_country_map_from(map, data) ==
    IF data = <<>> THEN map
    ELSE build_country_map_from(
             IF Head(data).used_by.some
             THEN push_countries(map, Head(data).used_by.val, Head(data).alpha3)
             ELSE map,
             Tail(data))

build_country_map(data) == build_country_map_from(<<>>, data)

\* the values of the generated enum Flag
FlagSpecial == [tag |-> "Special"]
FlagFund == [tag |-> "Fund"]
FlagSuperseded(currency) == [tag |-> "Superseded", cur |-> currency]

\* flags_vec with the pushes of Special and Fund exchanged
flags_vec_fund_first(data) ==
    (IF data.is_fund THEN <<FlagFund>> ELSE <<>>)
    \o (IF data.is_special THEN <<FlagSpecial>> ELSE <<>>)
    \o (IF data.is_superseded.some
        THEN <<FlagSuperseded(data.is_superseded.val)>> ELSE <<>>)

flags_vec(data) ==
    (IF data.is_special THEN <<FlagSpecial>> ELSE <<>>)
    \o (IF data.is_fund THEN <<FlagFund>> ELSE <<>>)
    \o (IF data.is_superseded.some
        THEN <<FlagSuperseded(data.is_superseded.val)>> ELSE <<>>)

\* a match arm: pattern => value
Arm(pat, value) == [pat |-> pat, value |-> value]

\* the rows of data that satisfy has_exponent / has_superseded, in order
RECURSIVE with_exponent(_)
with_exponent(data) ==
    IF data = <<>> THEN <<>>
    ELSE (IF Head(data).exponent.some THEN <<Head(data)>> ELSE <<>>)
         \o with_exponent(Tail(data))

RECURSIVE with_superseded(_)
with_superseded(data) ==
    IF data = <<>> THEN <<>>
    ELSE (IF Head(data).is_superseded.some THEN <<Head(data)>> ELSE <<>>)
         \o with_superseded(Tail(data))

write_enum(data) == [i \in 1..Len(data) |-> data[i].alpha3]

generate_numeric_method(data) ==
    [i \in 1..Len(data) |-> Arm(data[i].alpha3, data[i].numeric)]

code_method(data) ==
    [i \in 1..Len(data) |-> Arm(data[i].alpha3, data[i].alpha3)]

used_by_method(data) ==
    [i \in 1..Len(data) |->
        Arm(data[i].alpha3,
            IF data[i].used_by.some THEN data[i].used_by.val ELSE <<>>)]

from_code_method(data) ==
    [i \in 1..Len(data) |-> Arm(data[i].alpha3, Some(data[i].alpha3))]

from_numeric_method(data) ==
    [i \in 1..Len(data) |-> Arm(data[i].numeric, Some(data[i].alpha3))]

exponent_method(data) ==
    LET rows == with_exponent(data)
    IN [i \in 1..Len(rows) |-> Arm(rows[i].alpha3, rows[i].exponent)]

\* the arm's value is the expression Some(10_u16.pow(v as u32)), kept as v
subunit_fraction_method(data) ==
    LET rows == with_exponent(data)
    IN [i \in 1..Len(rows) |-> Arm(rows[i].alpha3, rows[i].exponent.val)]

is_superseded_method(data) ==
    LET rows == with_superseded(data)
    IN [i \in 1..Len(rows) |-> Arm(rows[i].alpha3, rows[i].is_superseded)]

latest_method(data) ==
    [i \in 1..Len(data) |->
        Arm(data[i].alpha3,
            IF data[i].is_superseded.some THEN data[i].is_superseded.val
            ELSE data[i].alpha3)]

flags_method(data) ==
    [i \in 1..Len(data) |-> Arm(data[i].alpha3, flags_vec(data[i]))]

name_method(data) ==
    [i \in 1..Len(data) |-> Arm(data[i].alpha3, data[i].name)]

\* the arm's value is the expression CurrencySymbol::new(symbol, subunit)
symbol_method(data) ==
    [i \in 1..Len(data) |->
        Arm(data[i].alpha3,
            [symbol |-> data[i].symbol,
             subunit_symbol |-> data[i].subunit_symbol])]

\* the rows of data whose is_fund / is_special is b, in order
RECURSIVE fund_partition(_, _)
fund_partition(data, b) ==
    IF data = <<>> THEN <<>>
    ELSE (IF Head(data).is_fund = b THEN <<Head(data)>> ELSE <<>>)
         \o fund_partition(Tail(data), b)

RECURSIVE special_partition(_, _)
special_partition(data, b) ==
    IF data = <<>> THEN <<>>
    ELSE (IF Head(data).is_special = b THEN <<Head(data)>> ELSE <<>>)
         \o special_partition(Tail(data), b)

\* one arm Currency::A | Currency::B | .. => value
joint_match_currency_bool(data, value) ==
    Arm([i \in 1..Len(data) |-> data[i].alpha3], value)

is_fund_method(data) ==
    LET left == fund_partition(data, TRUE)
        right == fund_partition(data, FALSE)
    IN (IF left # <<>>
        THEN <<joint_match_currency_bool(left, left[1].is_fund)>> ELSE <<>>)
       \o (IF right # <<>>
           THEN <<joint_match_currency_bool(right, right[1].is_fund)>>
           ELSE <<>>)

\* is_special_method partitioning by is_fund, as is_fund_method does
is_special_method_by_fund(data) == is_fund_method(data)

is_special_method(data) ==
    LET left == special_partition(data, TRUE)
        right == special_partition(data, FALSE)
    IN (IF left # <<>>
        THEN <<joint_match_currency_bool(left, left[1].is_special)>> ELSE <<>>)
       \o (IF right # <<>>
           THEN <<joint_match_currency_bool(right, right[1].is_special)>>
           ELSE <<>>)

\* the arm's value is the expression Currency::X.flags().contains(&flag),
\* kept as X
has_flag_method(data) ==
    [i \in 1..Len(data) |-> Arm(data[i].alpha3, data[i].alpha3)]

\* from_country_method with the list of the first key the iterator yields
\* in every arm
from_country_method_first_key(map, order) ==
    [i \in 1..Len(order) |-> Arm(order[i], map[order[1]])]

\* the arms of from_country, in the order `order` in which the HashMap's
\* iterator yields its keys
from_country_method(map, order) ==
    [i \in 1..Len(order) |-> Arm(order[i], map[order[i]])]

\* the orders in which a HashMap with the keys of map may be iterated
IterationOrders(map) ==
    {o \in [1..Cardinality(DOMAIN map) -> DOMAIN map] :
        \A i, j \in 1..Cardinality(DOMAIN map) : i # j => o[i] # o[j]}

\* every string the generator passes to Ident::new
Idents(data, map) ==
    {data[i].alpha3 : i \in 1..Len(data)}
    \cup UNION {Range(data[i].used_by.val) :
                    i \in {k \in 1..Len(data) : data[k].used_by.some}}
    \cup {data[i].is_superseded.val :
              i \in {k \in 1..Len(data) : data[k].is_superseded.some}}
    \cup DOMAIN map
    \cup UNION {Range(map[c]) : c \in DOMAIN map}

write_enum_impl(data, map, order) ==
    [enum |-> write_enum(data),
     numeric |-> generate_numeric_method(data),
     code |-> code_method(data),
     used_by |-> used_by_method(data),
     from_code |-> from_code_method(data),
     from_numeric |-> from_numeric_method(data),
     exponent |-> exponent_method(data),
     subunit_fraction |-> subunit_fraction_method(data),
     is_superseded |-> is_superseded_method(data),
     latest |-> latest_method(data),
     flags |-> flags_method(data),
     name |-> name_method(data),
     symbol |-> symbol_method(data),
     is_fund |-> is_fund_method(data),
     is_special |-> is_special_method(data),
     has_flag |-> has_flag_method(data),
     from_country |-> from_country_method(map, order)]

NoCode == [enum |-> <<>>]

----------------------------------------------------------------------------
(* The generated code, compiled into the library by include! in lib.rs.     *)

\* the external territory enumeration iso_country::Country, in declaration
\* order, which is the order its derived Ord sorts by
Country == <<<<"L", "I">>, <<"D", "E">>, <<"C", "H">>>>

\* the arms' values that name a variant of Currency
CurrencyRefs(g) ==
    {g.is_superseded[i].value.val : i \in 1..Len(g.is_superseded)}
    \cup {g.latest[i].value : i \in 1..Len(g.latest)}
    \cup UNION {{f.cur : f \in {h \in Range(g.flags[i].value) :
                                    h.tag = "Superseded"}} :
                    i \in 1..Len(g.flags)}
    \cup UNION {Range(g.from_country[i].value) : i \in 1..Len(g.from_country)}

\* the arms' patterns and values that name a variant of Country
CountryRefs(g) ==
    UNION {Range(g.used_by[i].value) : i \in 1..Len(g.used_by)}
    \cup {g.from_country[i].pat : i \in 1..Len(g.from_country)}

\* rustc accepts the generated code: the enum defines no variant twice and
\* every path Currency::X and Country::X names a variant
Compiles(g) ==
    /\ \A i, j \in 1..Len(g.enum) : i # j => g.enum[i] # g.enum[j]
    /\ CurrencyRefs(g) \subseteq Range(g.enum)
    /\ CountryRefs(g) \subseteq Range(Country)

\* match scrutinee { arms.. }: the value of the first arm whose pattern is
\* the scrutinee, or otherwise when there is none (the arm `_ => otherwise`)
match(arms, scrutinee, otherwise) ==
    IF \E i \in 1..Len(arms) : arms[i].pat = scrutinee
    THEN arms[CHOOSE i \in 1..Len(arms) :
                  /\ arms[i].pat = scrutinee
                  /\ \A j \in 1..(i - 1) : arms[j].pat # scrutinee].value
    ELSE otherwise

\* a match without a `_` arm: rustc has checked that it is exhaustive
match_exhaustive(arms, scrutinee) ==
    arms[CHOOSE i \in 1..Len(arms) :
             /\ arms[i].pat = scrutinee
             /\ \A j \in 1..(i - 1) : arms[j].pat # scrutinee].value

\* the position of a territory in the order of Country
Ord(country) == IndexOf(Country, country)

\* v inserted into the sorted sequence s, after the elements equal to it
RECURSIVE insert(_, _)
insert(s, v) ==
    IF s = <<>> THEN <<v>>
    ELSE IF Ord(v) < Ord(Head(s)) THEN <<v>> \o s
    ELSE <<Head(s)>> \o insert(Tail(s), v)

\* Vec::sort: the stable sort by Ord
RECURSIVE sort(_)
sort(s) ==
    IF s = <<>> THEN <<>>
    ELSE insert(sort(SubSeq(s, 1, Len(s) - 1)), s[Len(s)])

\* 10_u16.pow(exp): the value modulo 2^16, and whether a multiplication
\* overflowed 16 bits on the way
RECURSIVE pow10_u16(_)
pow10_u16(exp) ==
    IF exp = 0 THEN [value |-> 1, overflow |-> FALSE]
    ELSE LET r == pow10_u16(exp - 1)
         IN [value |-> (r.value * 10) % U16Modulus,
             overflow |-> r.overflow \/ r.value * 10 >= U16Modulus]

\* what a call may return: a value, or the call panics
Returned(v) == [panic |-> FALSE, value |-> v]
Panic == [panic |-> TRUE]

numeric(g, self) == match_exhaustive(g.numeric, self)

code(g, self) == match_exhaustive(g.code, self)

\* used_by without territories.sort()
used_by_unsorted(g, self) == match_exhaustive(g.used_by, self)

used_by(g, self) == sort(match_exhaustive(g.used_by, self))

\* from_code without the early return on the length
from_code_any_length(g, str) == match(g.from_code, str, None)

from_code(g, str) ==
    IF Len(str) # 3 THEN None
    ELSE match(g.from_code, str, None)

from_numeric(g, numeric_code) == match(g.from_numeric, numeric_code, None)

exponent(g, self) == match(g.exponent, self, None)

\* overflow_checks: the build profile checks arithmetic overflow (debug) or
\* wraps (release)
subunit_fraction(g, self, overflow_checks) ==
    IF \E i \in 1..Len(g.subunit_fraction) : g.subunit_fraction[i].pat = self
    THEN LET p == pow10_u16(match_exhaustive(g.subunit_fraction, self))
         IN IF p.overflow /\ overflow_checks THEN Panic
            ELSE Returned(Some(p.value))
    ELSE Returned(None)

is_superseded(g, self) == match(g.is_superseded, self, None)

\* latest following the supersession of its result once more
latest_two_hops(g, self) ==
    match_exhaustive(g.latest, match_exhaustive(g.latest, self))

latest(g, self) == match_exhaustive(g.latest, self)

flags(g, self) == match_exhaustive(g.flags, self)

from_country(g, country) == match(g.from_country, country, <<>>)

name(g, self) == match_exhaustive(g.name, self)

\* CurrencySymbol::new
CurrencySymbol_new(symbol, subunit_symbol) ==
    [symbol |-> symbol, subunit_symbol |-> subunit_symbol]

symbol(g, self) ==
    LET e == match_exhaustive(g.symbol, self)
    IN CurrencySymbol_new(e.symbol, e.subunit_symbol)

\* a match whose arms are alternatives A | B | ..: the value of the first
\* arm that lists the scrutinee
match_joint(arms, scrutinee) ==
    arms[CHOOSE i \in 1..Len(arms) :
             /\ scrutinee \in Range(arms[i].pat)
             /\ \A j \in 1..(i - 1) : scrutinee \notin Range(arms[j].pat)].value

is_fund(g, self) == match_joint(g.is_fund, self)

is_special(g, self) == match_joint(g.is_special, self)

has_flag(g, self, flag) ==
    flag \in Range(flags(g, match_exhaustive(g.has_flag, self)))

\* Iterator::find: the first element of s that satisfies p
RECURSIVE find_unflagged(_, _)
find_unflagged(g, s) ==
    IF s = <<>> THEN None
    ELSE IF flags(g, Head(s)) = <<>> THEN Some(Head(s))
    ELSE find_unflagged(g, Tail(s))

\* the variant of from that takes the first currency of the territory
currency_from_first(g, country) ==
    LET s == from_country(g, country)
    IN IF s = <<>> THEN Panic ELSE Returned(Head(s))

\* impl From<Country> for Currency: find(..).unwrap()
currency_from(g, country) ==
    LET found == find_unflagged(g, from_country(g, country))
    IN IF found.some THEN Returned(found.val) ELSE Panic

\* the derived Ord of the enum: by the place of the variant in the
\* declaration
cmp(g, a, b) ==
    LET ia == IndexOf(g.enum, a)
        ib == IndexOf(g.enum, b)
    IN IF ia < ib THEN "Less" ELSE IF ia = ib THEN "Equal" ELSE "Greater"

\* the derived EnumIter: the variants in the order of the declaration
iter(g) == g.enum

----------------------------------------------------------------------------
(* The build, step by step, and the calls of the generated methods.         *)

NoCall == [op |-> "none"]
Call(op, arg, ret) == [op |-> op, arg |-> arg, ret |-> ret]

\* let mut isodata = read_table();
ReadTable ==
    /\ pc = "start"
    /\ LET r == read_table(table)
       IN IF r.ok
          THEN isodata' = r.val /\ pc' = "read"
          ELSE isodata' = isodata /\ pc' = "panic"
    /\ UNCHANGED <<table, features, country_map, generated, last>>

\* isodata.retain(..);
Retain ==
    /\ pc = "read"
    /\ isodata' = retain(isodata, features)
    /\ pc' = "retained"
    /\ UNCHANGED <<table, features, country_map, generated, last>>

\* main without the check for an empty selection
CheckEmptySkipped ==
    /\ pc = "retained"
    /\ pc' = "nonempty"
    /\ UNCHANGED <<table, features, isodata, country_map, generated, last>>

\* if isodata.is_empty() { panic!(..) }
CheckEmpty ==
    /\ pc = "retained"
    /\ pc' = IF isodata = <<>> THEN "panic" ELSE "nonempty"
    /\ UNCHANGED <<table, features, isodata, country_map, generated, last>>

\* let country_map = build_country_map(&isodata);
BuildCountryMap ==
    /\ pc = "nonempty"
    /\ country_map' = build_country_map(isodata)
    /\ pc' = "mapped"
    /\ UNCHANGED <<table, features, isodata, generated, last>>

\* write_enum(..); write_enum_impl(..); an Ident::new of a string that is no
\* identifier panics
WriteEnumImpl ==
    /\ pc = "mapped"
    /\ IF \E s \in Idents(isodata, country_map) : ~IsIdent(s)
       THEN generated' = generated /\ pc' = "panic"
       ELSE \E order \in IterationOrders(country_map) :
               /\ generated' = write_enum_impl(isodata, country_map, order)
               /\ pc' = "written"
    /\ UNCHANGED <<table, features, isodata, country_map, last>>

\* the library is compiled with the generated code included
Compile ==
    /\ pc = "written"
    /\ pc' = IF Compiles(generated) THEN "registry" ELSE "rejected"
    /\ UNCHANGED <<table, features, isodata, country_map, generated, last>>

\* the strings, numbers and territories the model calls the lookups with
QueryStrings ==
    {<<"A", "A", "A">>, <<"B", "B", "B">>, <<"C", "C", "C">>,
     <<"a", "a", "a">>, <<"A", "A">>, <<"A", "A", "A", "A">>, <<>>}
QueryNumerics == {1, 2, 3, 9999}
QueryCountries == Range(Country)

Variants == Range(generated.enum)

\* a method of the registry can be called: the library is built and the
\* caller holds no result of an earlier call
Callable == pc = "registry" /\ last = NoCall

\* the caller is done with the result of its call
Return ==
    /\ pc = "registry"
    /\ last # NoCall
    /\ last' = NoCall
    /\ UNCHANGED <<table, features, pc, isodata, country_map, generated>>

CallNumeric ==
    /\ Callable
    /\ \E x \in Variants : last' = Call("numeric", x, numeric(generated, x))
    /\ UNCHANGED <<table, features, pc, isodata, country_map, generated>>

CallCode ==
    /\ Callable
    /\ \E x \in Variants : last' = Call("code", x, code(generated, x))
    /\ UNCHANGED <<table, features, pc, isodata, country_map, generated>>

CallUsedBy ==
    /\ Callable
    /\ \E x \in Variants : last' = Call("used_by", x, used_by(generated, x))
    /\ UNCHANGED <<table, features, pc, isodata, country_map, generated>>

CallFromCode ==
    /\ Callable
    /\ \E s \in QueryStrings :
          last' = Call("from_code", s, from_code(generated, s))
    /\ UNCHANGED <<table, features, pc, isodata, country_map, generated>>

CallFromNumeric ==
    /\ Callable
    /\ \E n \in QueryNumerics :
          last' = Call("from_numeric", n, from_numeric(generated, n))
    /\ UNCHANGED <<table, features, pc, isodata, country_map, generated>>

CallExponent ==
    /\ Callable
    /\ \E x \in Variants : last' = Call("exponent", x, exponent(generated, x))
    /\ UNCHANGED <<table, features, pc, isodata, country_map, generated>>

CallSubunitFraction ==
    /\ Callable
    /\ \E x \in Variants, overflow_checks \in BOOLEAN :
          last' = Call("subunit_fraction", x,
                       subunit_fraction(generated, x, overflow_checks))
    /\ UNCHANGED <<table, features, pc, isodata, country_map, generated>>

CallIsSuperseded ==
    /\ Callable
    /\ \E x \in Variants :
          last' = Call("is_superseded", x, is_superseded(generated, x))
    /\ UNCHANGED <<table, features, pc, isodata, country_map, generated>>

CallLatest ==
    /\ Callable
    /\ \E x \in Variants : last' = Call("latest", x, latest(generated, x))
    /\ UNCHANGED <<table, features, pc, isodata, country_map, generated>>

CallFlags ==
    /\ Callable
    /\ \E x \in Variants : last' = Call("flags", x, flags(generated, x))
    /\ UNCHANGED <<table, features, pc, isodata, country_map, generated>>

CallFromCountry ==
    /\ Callable
    /\ \E t \in QueryCountries :
          last' = Call("from_country", t, from_country(generated, t))
    /\ UNCHANGED <<table, features, pc, isodata, country_map, generated>>

CallName ==
    /\ Callable
    /\ \E x \in Variants : last' = Call("name", x, name(generated, x))
    /\ UNCHANGED <<table, features, pc, isodata, country_map, generated>>

CallSymbol ==
    /\ Callable
    /\ \E x \in Variants : last' = Call("symbol", x, symbol(generated, x))
    /\ UNCHANGED <<table, features, pc, isodata, country_map, generated>>

CallIsFund ==
    /\ Callable
    /\ \E x \in Variants : last' = Call("is_fund", x, is_fund(generated, x))
    /\ UNCHANGED <<table, features, pc, isodata, country_map, generated>>

CallIsSpecial ==
    /\ Callable
    /\ \E x \in Variants :
          last' = Call("is_special", x, is_special(generated, x))
    /\ UNCHANGED <<table, features, pc, isodata, country_map, generated>>

\* the values of Flag: Superseded carries a variant of the enum
QueryFlags == {FlagSpecial, FlagFund} \cup {FlagSuperseded(y) : y \in Variants}

CallHasFlag ==
    /\ Callable
    /\ \E x \in Variants, f \in QueryFlags :
          last' = Call("has_flag", <<x, f>>, has_flag(generated, x, f))
    /\ UNCHANGED <<table, features, pc, isodata, country_map, generated>>

\* Currency::from(country)
CallFrom ==
    /\ Callable
    /\ \E t \in QueryCountries :
          last' = Call("from", t, currency_from(generated, t))
    /\ UNCHANGED <<table, features, pc, isodata, country_map, generated>>

CallCmp ==
    /\ Callable
    /\ \E x, y \in Variants :
          last' = Call("cmp", <<x, y>>, cmp(generated, x, y))
    /\ UNCHANGED <<table, features, pc, isodata, country_map, generated>>

\* Currency::iter().collect()
CallIter ==
    /\ Callable
    /\ last' = Call("iter", <<>>, iter(generated))
    /\ UNCHANGED <<table, features, pc, isodata, country_map, generated>>

Next ==
    \/ ReadTable
    \/ Retain
    \/ CheckEmpty
    \/ BuildCountryMap
    \/ WriteEnumImpl
    \/ Compile
    \/ CallNumeric
    \/ CallCode
    \/ CallUsedBy
    \/ CallFromCode
    \/ CallFromNumeric
    \/ CallExponent
    \/ CallSubunitFraction
    \/ CallIsSuperseded
    \/ CallLatest
    \/ CallFlags
    \/ CallFromCountry
    \/ CallName
    \/ CallSymbol
    \/ CallIsFund
    \/ CallIsSpecial
    \/ CallHasFlag
    \/ CallFrom
    \/ CallCmp
    \/ CallIter
    \/ Return

----------------------------------------------------------------------------
(* The tables and feature sets the build is run on.                         *)

AAA == <<"A", "A", "A">>
BBB == <<"B", "B", "B">>
CCC == <<"C", "C", "C">>
DDD == <<"D", "D", "D">>
AAAA == <<"A", "A", "A", "A">>
aaa == <<"a", "a", "a">>
CH == <<"C", "H">>
LI == <<"L", "I">>
DE == <<"D", "E">>

\* a line of the table: code, numeric, name, used-by, symbol, subunit
\* symbol, exponent, flags
Row(alpha3, num, used, exp, flagsField) ==
    <<alpha3, num, <<"N">>, used, <<"$">>, <<>>, exp, flagsField>>

\* the build starts on the table lines, with the features enabled
InitOn(tables, featureSets) ==
    /\ table \in tables
    /\ features \in featureSets
    /\ pc = "start"
    /\ isodata = <<>>
    /\ country_map = <<>>
    /\ generated = NoCode
    /\ last = NoCall

\* tables that differ in their codes and numeric codes
CodeRows ==
    {Row(c, n, <<>>, <<"2">>, <<>>) :
        c \in {AAA, BBB, AAAA, aaa}, n \in {<<"1">>, <<"2">>}}
    \cup {Row(BBB, <<"x">>, <<>>, <<"2">>, <<>>)}

Init == InitOn(SeqsUpTo(CodeRows, MaxRows), SUBSET {AAA, BBB, AAAA})

Spec == Init /\ [][Next]_vars

\* the codes and numeric codes of the rows of a table of distinct currencies
CodeNames == <<AAA, BBB, CCC, DDD>>
NumericNames == <<<<"1">>, <<"2">>, <<"3">>, <<"4">>>>
CodeAt(i) == CodeNames[((i - 1) % Len(CodeNames)) + 1]
NumericAt(i) == NumericNames[((i - 1) % Len(NumericNames)) + 1]
FeaturePool == {CodeAt(i) : i \in 1..MaxRows}

SupersededBy(c) == SUPERSEDED \o <<"(">> \o c \o <<")">>

\* tables of distinct currencies that differ in their flags fields
FlagFields ==
    {<<>>,
     SPECIAL,
     FUND,
     Join(<<FUND, SPECIAL>>, <<",">>),
     SupersededBy(AAA),
     SupersededBy(BBB),
     SupersededBy(CCC),
     Join(<<FUND, SupersededBy(BBB), SPECIAL>>, <<",">>),
     SUPERSEDED}

FlagTables ==
    UNION {{[i \in 1..k |-> Row(CodeAt(i), NumericAt(i), <<>>, <<"2">>, f[i])] :
                f \in [1..k -> FlagFields]} : k \in 0..MaxRows}

InitFlags == InitOn(FlagTables, SUBSET FeaturePool)

SpecFlags == InitFlags /\ [][Next]_vars

\* tables of distinct currencies that differ in their used-by fields
UsedByFields ==
    {<<>>,
     CH,
     Join(<<CH, LI>>, <<";">>),
     Join(<<CH, DE, LI>>, <<";">>),
     Join(<<CH, LI, CH>>, <<";">>),
     <<"E", "E">>,
     Join(<<DE, <<>>>>, <<";">>)}

UsedByTables ==
    UNION {{[i \in 1..k |-> Row(CodeAt(i), NumericAt(i), u[i], <<"2">>, <<>>)] :
                u \in [1..k -> UsedByFields]} : k \in 0..MaxRows}

InitUsedBy == InitOn(UsedByTables, SUBSET FeaturePool)

SpecUsedBy == InitUsedBy /\ [][Next]_vars

\* tables of distinct currencies that differ in their exponent fields
ExponentFields ==
    {<<>>, <<"0">>, <<"2">>, <<"4">>, <<"5">>, <<"6">>, <<"-", "1">>}

ExponentTables ==
    UNION {{[i \in 1..k |-> Row(CodeAt(i), NumericAt(i), <<>>, e[i], <<>>)] :
                e \in [1..k -> ExponentFields]} : k \in 0..MaxRows}

InitExponent == InitOn(ExponentTables, SUBSET FeaturePool)

SpecExponent == InitExponent /\ [][Next]_vars

----------------------------------------------------------------------------
(* The properties.  A registry exists when pc = "registry": the generator   *)
(* has written the code and the library has compiled with it.               *)

\* the line of the table, and the record of isodata, of the variant x
TableRowOf(x) == table[CHOOSE i \in 1..Len(table) : table[i][1] = x]
RecordOf(x) == isodata[CHOOSE i \in 1..Len(isodata) : isodata[i].alpha3 = x]
RowIndexOf(x) == CHOOSE i \in 1..Len(table) : table[i][1] = x

RECURSIVE Pow10(_)
Pow10(e) == IF e = 0 THEN 1 ELSE 10 * Pow10(e - 1)

\* C1: in every registry, from_code(code(x)) returns Some(x) for every
\* value x of the enumeration.
C1_FromCodeOfCode ==
    pc = "registry" =>
        \A x \in Variants : from_code(generated, code(generated, x)) = Some(x)

\* C2: in every registry, from_numeric(numeric(x)) returns Some(x) for every
\* value x of the enumeration.
C2_FromNumericOfNumeric ==
    pc = "registry" =>
        \A x \in Variants :
            from_numeric(generated, numeric(generated, x)) = Some(x)

\* C3: from_code(s) returns Some(x) exactly when s is 3 long and equal,
\* character for character, to code(x) for a value x of the registry; for
\* every other string it returns None.
C3_FromCodeExact ==
    last.op = "from_code" =>
        LET s == last.arg
            hits == {x \in Variants : Len(s) = 3 /\ s = code(generated, x)}
        IN /\ \A x \in Variants \cup QueryStrings :
                  (last.ret = Some(x)) <=> (x \in hits)
           /\ (hits = {}) <=> (last.ret = None)

\* a registry holds both AAA and aaa, and from_code("aaa") has returned aaa
C3_Witness ==
    /\ last.op = "from_code"
    /\ {AAA, aaa} \subseteq Variants
    /\ last.arg = aaa
    /\ last.ret = Some(aaa)

\* C4: no registry is produced from a table in which two rows share a code
\* or share a numeric code, and in every registry no two values have the
\* same code and no two have the same numeric code.
C4_DuplicatesAbort ==
    pc = "registry" =>
        /\ \A i, j \in 1..Len(table) :
              i # j => /\ table[i][1] # table[j][1]
                       /\ parse_u16(table[i][2]) # parse_u16(table[j][2])
        /\ \A x, y \in Variants :
              x # y => /\ code(generated, x) # code(generated, y)
                       /\ numeric(generated, x) # numeric(generated, y)

\* C5: in every registry, is_superseded(x) = Some(y) only for a value y of
\* the registry other than x, and no registry is produced from records with
\* a dangling or self-referencing supersession target.
C5_SupersededResolves ==
    pc = "registry" =>
        /\ \A x \in Variants :
              is_superseded(generated, x).some =>
                  /\ is_superseded(generated, x).val \in Variants
                  /\ is_superseded(generated, x).val # x
        /\ \A i \in 1..Len(isodata) :
              isodata[i].is_superseded.some =>
                  /\ \E j \in 1..Len(isodata) :
                        isodata[j].alpha3 = isodata[i].is_superseded.val
                  /\ isodata[i].is_superseded.val # isodata[i].alpha3

\* C6: latest(x) is y when is_superseded(x) = Some(y), whether or not y is
\* itself superseded, and is x when is_superseded(x) = None.
C6_LatestSingleHop ==
    last.op = "latest" =>
        LET x == last.arg
            y == is_superseded(generated, x)
        IN /\ y.some => last.ret = y.val
           /\ ~y.some => last.ret = x

\* latest(x) has returned y, which is not x and is itself superseded
C6_Witness ==
    /\ last.op = "latest"
    /\ is_superseded(generated, last.arg) = Some(last.ret)
    /\ last.ret # last.arg
    /\ is_superseded(generated, last.ret).some

\* the place of a flag in the order Special, Fund, Superseded
FlagRank(f) ==
    CASE f.tag = "Special" -> 1
      [] f.tag = "Fund" -> 2
      [] f.tag = "Superseded" -> 3

\* C7: flags(x) holds exactly the flags parsed for x's record, each once, in
\* the order Special, Fund, Superseded(target); it is empty when the record
\* has no flag.
C7_FlagsOfRecord ==
    last.op = "flags" =>
        LET d == RecordOf(last.arg)
            f == last.ret
        IN /\ (FlagSpecial \in Range(f)) <=> d.is_special
           /\ (FlagFund \in Range(f)) <=> d.is_fund
           /\ {h \in Range(f) : h.tag = "Superseded"}
                  = (IF d.is_superseded.some
                     THEN {FlagSuperseded(d.is_superseded.val)} ELSE {})
           /\ \A i, j \in 1..Len(f) : i < j => FlagRank(f[i]) < FlagRank(f[j])
           /\ (~d.is_special /\ ~d.is_fund /\ ~d.is_superseded.some) => f = <<>>

\* flags(x) has returned three flags for a row whose field lists fund first
C7_Witness ==
    /\ last.op = "flags"
    /\ Len(last.ret) = 3
    /\ Head(split(TableRowOf(last.arg)[8], {","})) = FUND

\* C8: subunit_fraction(x) is present exactly when exponent(x) is, which is
\* when the row's exponent field is not empty, and is then 10 to the power
\* exponent(x).
C8_SubunitFraction ==
    last.op = "subunit_fraction" =>
        LET x == last.arg
            e == exponent(generated, x)
        IN /\ ~last.ret.panic
           /\ last.ret.value.some <=> e.some
           /\ e.some <=> (TableRowOf(x)[7] # <<>>)
           /\ e.some => last.ret.value.val = Pow10(e.val)

\* the territories the used-by field of x's row lists
ListedBy(x) ==
    IF TableRowOf(x)[4] = <<>> THEN <<>> ELSE split(TableRowOf(x)[4], {";"})

\* C9: used_by(x) is non-decreasing in the order of Country and holds the
\* territories x's row lists, each as often as the row lists it; it is empty
\* when the row's used-by field is empty.
C9_UsedBySorted ==
    last.op = "used_by" =>
        LET r == last.ret
            listed == ListedBy(last.arg)
        IN /\ \A i, j \in 1..Len(r) : i < j => Ord(r[i]) <= Ord(r[j])
           /\ Len(r) = Len(listed)
           /\ \A t \in Range(r) \cup Range(listed) : Count(r, t) = Count(listed, t)
           /\ TableRowOf(last.arg)[4] = <<>> => r = <<>>

\* used_by(x) has returned a list that repeats a territory and is not in
\* the order of the row
C9_Witness ==
    /\ last.op = "used_by"
    /\ \E t \in Range(last.ret) : Count(last.ret, t) = 2
    /\ last.ret # ListedBy(last.arg)

\* from_country(t) has returned r: values of the registry, in row order
FromCountryInRowOrder(r) ==
    /\ Range(r) \subseteq Variants
    /\ \A i, j \in 1..Len(r) : i < j => RowIndexOf(r[i]) <= RowIndexOf(r[j])

\* C10 as stated: from_country(t) lists exactly the currencies of the
\* registry whose used_by contains t, each once, in row order.
C10_FromCountryOnce ==
    last.op = "from_country" =>
        /\ FromCountryInRowOrder(last.ret)
        /\ \A x \in Variants :
              Count(last.ret, x)
                  = (IF last.arg \in Range(used_by(generated, x)) THEN 1 ELSE 0)

\* C10: from_country(t) lists the currencies of the registry whose used_by
\* contains t, in row order, each as often as its used_by holds t; it is
\* empty when no currency of the registry is used by t, and it lists no
\* currency that is not in the registry.
C10_FromCountry ==
    last.op = "from_country" =>
        /\ FromCountryInRowOrder(last.ret)
        /\ \A x \in Variants :
              Count(last.ret, x) = Count(used_by(generated, x), last.arg)
        /\ (\A x \in Variants : last.arg \notin Range(used_by(generated, x)))
              => last.ret = <<>>

\* from_country(t) has returned two currencies, the first of them twice
C10_Witness ==
    /\ last.op = "from_country"
    /\ Len(last.ret) = 3
    /\ Count(last.ret, Head(last.ret)) = 2

----------------------------------------------------------------------------
(* The default currency of a territory.                                     *)

\* tables of distinct currencies that differ in their used-by and flags
\* fields
DefaultUsedBy == {<<>>, CH, Join(<<CH, LI>>, <<";">>)}
DefaultFlags == {<<>>, FUND, SupersededBy(BBB)}

DefaultTables ==
    UNION {{[i \in 1..k |-> Row(CodeAt(i), NumericAt(i), u[i], <<"2">>, f[i])] :
                u \in [1..k -> DefaultUsedBy], f \in [1..k -> DefaultFlags]} :
           k \in 0..MaxRows}

InitDefault == InitOn(DefaultTables, SUBSET FeaturePool)

SpecDefault == InitDefault /\ [][Next]_vars

\* C11: Currency::from(t) returns the first element of from_country(t)
\* whose flags() is empty; when from_country(t) is empty or every currency
\* in it carries a flag, the conversion fails (it panics) instead of
\* returning a currency.
C11_DefaultCurrency ==
    last.op = "from" =>
        LET l == from_country(generated, last.arg)
            unflagged == {i \in 1..Len(l) : flags(generated, l[i]) = <<>>}
        IN /\ unflagged = {} => last.ret = Panic
           /\ unflagged # {} =>
                 \E i \in unflagged :
                    /\ \A j \in unflagged : i <= j
                    /\ last.ret = Returned(l[i])

\* Currency::from(t) has returned the second currency of from_country(t),
\* the first one carrying a flag
C11_Witness ==
    /\ last.op = "from"
    /\ ~last.ret.panic
    /\ Len(from_country(generated, last.arg)) = 2
    /\ last.ret.value = from_country(generated, last.arg)[2]
    /\ flags(generated, from_country(generated, last.arg)[1]) # <<>>

----------------------------------------------------------------------------
(* No lookup panics.                                                        *)

LookupOps ==
    {"numeric", "name", "code", "symbol", "exponent", "subunit_fraction",
     "used_by", "from_code", "from_numeric", "is_fund", "is_special",
     "is_superseded", "latest", "flags", "has_flag", "from_country"}

\* the call panicked.  The generated lookups are matches over literals, total
\* by construction; the two operations with an operation that can panic,
\* 10_u16.pow(..) and Option::unwrap, return Returned(..) or Panic
Panics(call) == call.op \in {"subunit_fraction", "from"} /\ call.ret.panic

\* C12: in every registry, every call of a lookup operation, on every value
\* of the enumeration and every input, returns a normal value: none panics.
C12_NoLookupPanics ==
    last.op \in LookupOps => ~Panics(last)

----------------------------------------------------------------------------
(* The symbol of a currency.                                                *)

\* the international currency symbol, the character U+00A4, as a string of
\* one character
CurrencySign == <<"U+00A4">>

\* tables of distinct currencies that differ in their symbol and subunit
\* symbol fields
SymbolFields == {<<>>, <<"$">>, <<"k", "r">>, CurrencySign}
SubunitSymbolFields == {<<>>, <<"c">>}

SymbolTables ==
    UNION {{[i \in 1..k |-> <<CodeAt(i), NumericAt(i), <<"N">>, <<>>,
                              sy[i], su[i], <<"2">>, <<>> >>] :
                sy \in [1..k -> SymbolFields],
                su \in [1..k -> SubunitSymbolFields]} : k \in 0..MaxRows}

InitSymbol == InitOn(SymbolTables, SUBSET FeaturePool)

SpecSymbol == InitSymbol /\ [][Next]_vars

\* C13: the symbol of every record is present: symbol(x).symbol is never the
\* empty string, and it is the international currency symbol when the symbol
\* field of x's row is empty.
C13_SymbolPresent ==
    last.op = "symbol" =>
        /\ last.ret.symbol # <<>>
        /\ TableRowOf(last.arg)[5] = <<>> => last.ret.symbol = CurrencySign

----------------------------------------------------------------------------
(* The order of the enumeration.                                            *)

\* tables that list some of three currencies once each, in any order
OrderCodes == {AAA, BBB, CCC}

OrderTables ==
    {t \in SeqsUpTo(OrderCodes, Cardinality(OrderCodes)) :
        \A i, j \in 1..Len(t) : t[i] = t[j] => i = j}

InitOrder ==
    InitOn({[i \in 1..Len(t) |-> Row(t[i], NumericAt(i), <<>>, <<"2">>, <<>>)] :
                t \in OrderTables},
           SUBSET OrderCodes)

SpecOrder == InitOrder /\ [][Next]_vars

\* the lines of the table the selection keeps
RetainedLines ==
    {i \in 1..Len(table) : to_uppercase(table[i][1]) \in features}

\* the list l holds variants of rows further and further down the table
InRowOrder(l) ==
    \A i, j \in 1..Len(l) : i < j => RowIndexOf(l[i]) < RowIndexOf(l[j])

\* C14: the enumeration of a registry has one value per retained row of the
\* table, declared in the order of those rows; x sorts before y exactly when
\* x's row precedes y's row, and the default iteration visits the values in
\* row order.
C14_RowOrder ==
    /\ pc = "registry" =>
          /\ Len(generated.enum) = Cardinality(RetainedLines)
          /\ Variants = {table[i][1] : i \in RetainedLines}
          /\ InRowOrder(generated.enum)
    /\ last.op = "cmp" =>
          /\ last.ret = "Less" <=>
                RowIndexOf(last.arg[1]) < RowIndexOf(last.arg[2])
          /\ last.ret = "Equal" <=> last.arg[1] = last.arg[2]
    /\ last.op = "iter" =>
          /\ Range(last.ret) = Variants
          /\ Len(last.ret) = Cardinality(Variants)
          /\ InRowOrder(last.ret)

\* of a table of three rows the first and the third are retained, the code
\* of the first is alphabetically after the code of the third, and the first
\* has compared as less than the third
C14_Witness ==
    /\ Len(table) = 3
    /\ RetainedLines = {1, 3}
    /\ table[1][1] = CCC
    /\ table[3][1] = AAA
    /\ last.op = "cmp"
    /\ last.arg = <<CCC, AAA>>
    /\ last.ret = "Less"

----------------------------------------------------------------------------
(* The loader on flag tokens it does not know and on malformed lines.       *)

\* superseded(CODE without the closing parenthesis
SupersededOpen(c) == SUPERSEDED \o <<"(">> \o c

\* flags fields with known tokens, with an unknown and with an empty token
\* before and after known ones, and with tokens that begin with superseded
\* without being superseded(CODE)
TokenFields ==
    {<<>>,
     FUND,
     SupersededBy(BBB),
     <<"x">>,
     Join(<<SupersededBy(BBB), <<"x">> >>, <<",">>),
     Join(<< <<"x">>, SupersededBy(BBB)>>, <<",">>),
     Join(<<SupersededBy(BBB), <<>> >>, <<",">>),
     Join(<<FUND, <<"x">> >>, <<",">>),
     SupersededOpen(BBB),
     SUPERSEDED}

\* the lines of the tables: well-formed but for the flags field, or with one
\* field too few, one field too many, or with a numeric or an exponent
\* field that is no unsigned integer
LineKinds ==
    [kind : {"flags"}, field : TokenFields]
    \cup [kind : {"7 fields", "9 fields"}, field : {<<>>}]
    \cup [kind : {"numeric"}, field : {<<"x">>, <<>>, <<"-", "1">>}]
    \cup [kind : {"exponent"}, field : {<<"x">>}]

LoaderLine(i, k) ==
    CASE k.kind = "flags" ->
            Row(CodeAt(i), NumericAt(i), <<>>, <<"2">>, k.field)
      [] k.kind = "7 fields" ->
            SubSeq(Row(CodeAt(i), NumericAt(i), <<>>, <<"2">>, <<>>), 1, 7)
      [] k.kind = "9 fields" ->
            Row(CodeAt(i), NumericAt(i), <<>>, <<"2">>, <<>>) \o << <<>> >>
      [] k.kind = "numeric" ->
            Row(CodeAt(i), k.field, <<>>, <<"2">>, <<>>)
      [] k.kind = "exponent" ->
            Row(CodeAt(i), NumericAt(i), <<>>, k.field, <<>>)

LoaderTables ==
    UNION {{[i \in 1..n |-> LoaderLine(i, k[i])] : k \in [1..n -> LineKinds]} :
           n \in 0..MaxRows}

InitLoader == InitOn(LoaderTables, {FeaturePool, {AAA}, {}})

SpecLoader == InitLoader /\ [][Next]_vars

\* the token is superseded(CODE) for a non-empty CODE of letters
WellFormedSuperseded(token) ==
    /\ Len(token) > Len(SUPERSEDED) + 2
    /\ starts_with(token, SUPERSEDED \o <<"(">>)
    /\ token[Len(token)] = ")"
    /\ \A k \in (Len(SUPERSEDED) + 2)..(Len(token) - 1) :
          token[k] \in Range(Upper)

Recognized(token) ==
    token = SPECIAL \/ token = FUND \/ WellFormedSuperseded(token)

RECURSIVE SelectRecognized(_)
SelectRecognized(tokens) ==
    IF tokens = <<>> THEN <<>>
    ELSE (IF Recognized(Head(tokens)) THEN <<Head(tokens)>> ELSE <<>>)
         \o SelectRecognized(Tail(tokens))

\* the flags field without the tokens that are not recognized
Cleaned(field) == Join(SelectRecognized(split(field, {","})), <<",">>)

\* C15: the loader ignores unrecognized flag tokens: the triple (is_special,
\* is_fund, is_superseded) of every record the loader returns equals the
\* triple parsed from the flags field of its line with every token other
\* than special, fund and a well-formed superseded(CODE) removed.
C15_UnrecognizedIgnored ==
    pc = "read" =>
        \A i \in 1..Len(isodata) :
            LET clean == parse_flags(Cleaned(table[i][8])).val
            IN /\ isodata[i].is_special = clean.is_special
               /\ isodata[i].is_fund = clean.is_fund
               /\ isodata[i].is_superseded = clean.is_superseded

\* the string is a non-empty string of decimal digits
UnsignedInteger(s) == s # <<>> /\ \A k \in 1..Len(s) : s[k] \in Range(Digits)

\* the line has exactly 8 fields, an unsigned integer as numeric field and
\* as exponent field unless that is empty, and no flag token that begins
\* with superseded without being superseded(CODE)
WellFormedLine(line) ==
    /\ Len(line) = 8
    /\ UnsignedInteger(line[2])
    /\ line[7] # <<>> => UnsignedInteger(line[7])
    /\ \A token \in Range(split(line[8], {","})) :
          starts_with(token, SUPERSEDED) => WellFormedSuperseded(token)

\* C16: the loader aborts the generation, returning no records, on every
\* table with a line that has not exactly 8 fields, whose numeric field or
\* non-empty exponent field is no unsigned integer, or that has a flag token
\* beginning with superseded that is not superseded(CODE).
C16_MalformedAborts ==
    (pc # "start" /\ \E i \in 1..Len(table) : ~WellFormedLine(table[i])) =>
        /\ pc = "panic"
        /\ isodata = <<>>
        /\ generated = NoCode

----------------------------------------------------------------------------
(* The empty selection.                                                     *)

\* C17: when no line of the table is selected (no code is enabled, or the
\* table has no lines), the generation never gets past the check for an
\* empty selection: it writes no code, no registry exists and none of its
\* methods is ever called.
C17_EmptySelectionFatal ==
    RetainedLines = {} =>
        /\ pc \in {"start", "read", "retained", "panic"}
        /\ generated = NoCode
        /\ last = NoCall

\* the generation has panicked on a table whose lines were all read and none
\* of which is selected by the enabled features
C17_Witness ==
    /\ RetainedLines = {}
    /\ table # <<>>
    /\ features # {}
    /\ read_table(table).ok
    /\ pc = "panic"
    /\ isodata = <<>>
    /\ generated = NoCode

----------------------------------------------------------------------------
(* Two runs of the generator.                                               *)

\* the records another run of main generates code from: the same table with
\* the same features enabled
RerunData == retain(read_table(table).val, features)

\* the code that run writes from the records data, its HashMap iterating in
\* the order `order`
Rerun(data, order) == write_enum_impl(data, build_country_map(data), order)

\* the results the call of op with arg can have in the library built with
\* the code g (subunit_fraction: one per build profile)
Results(g, op, arg) ==
    CASE op = "numeric" -> {numeric(g, arg)}
      [] op = "code" -> {code(g, arg)}
      [] op = "used_by" -> {used_by(g, arg)}
      [] op = "from_code" -> {from_code(g, arg)}
      [] op = "from_numeric" -> {from_numeric(g, arg)}
      [] op = "exponent" -> {exponent(g, arg)}
      [] op = "subunit_fraction" ->
            {subunit_fraction(g, arg, overflow_checks) :
                overflow_checks \in BOOLEAN}
      [] op = "is_superseded" -> {is_superseded(g, arg)}
      [] op = "latest" -> {latest(g, arg)}
      [] op = "flags" -> {flags(g, arg)}
      [] op = "from_country" -> {from_country(g, arg)}
      [] op = "name" -> {name(g, arg)}
      [] op = "symbol" -> {symbol(g, arg)}
      [] op = "is_fund" -> {is_fund(g, arg)}
      [] op = "is_special" -> {is_special(g, arg)}
      [] op = "has_flag" -> {has_flag(g, arg[1], arg[2])}
      [] op = "from" -> {currency_from(g, arg)}
      [] op = "cmp" -> {cmp(g, arg[1], arg[2])}
      [] op = "iter" -> {iter(g)}

\* C18: the generation is deterministic in what the registry answers: the
\* code any other run of the generator writes from the same table and the
\* same selection, whatever the iteration order of its territory map,
\* declares the same enumeration and compiles, and every call of a lookup
\* has in its registry the result it has in this one.
C18_Deterministic ==
    pc = "registry" =>
        LET data == RerunData
        IN \A order \in IterationOrders(build_country_map(data)) :
              LET rerun == Rerun(data, order)
              IN IF last = NoCall
                 THEN rerun.enum = generated.enum /\ Compiles(rerun)
                 ELSE /\ last.ret \in Results(generated, last.op, last.arg)
                      /\ Results(rerun, last.op, last.arg)
                            = Results(generated, last.op, last.arg)

\* from_country has returned the currencies of a territory in a registry
\* whose from_country arms another run writes in another order
C18_Witness ==
    /\ last.op = "from_country"
    /\ Len(last.ret) = 2
    /\ \E order \in IterationOrders(build_country_map(RerunData)) :
          Rerun(RerunData, order).from_country # generated.from_country

----------------------------------------------------------------------------
(* The classification queries and the flag list.                            *)

\* C19: the classification queries agree with the flag list: is_fund(x)
\* holds iff flags(x) contains Fund, is_special(x) iff it contains Special,
\* is_superseded(x) is Some(y) iff it contains Superseded(y) and None iff it
\* contains no Superseded flag, and has_flag(x, f) holds iff flags(x)
\* contains f.
C19_QueriesAgreeWithFlags ==
    /\ last.op = "is_fund" =>
          (last.ret <=> FlagFund \in Range(flags(generated, last.arg)))
    /\ last.op = "is_special" =>
          (last.ret <=> FlagSpecial \in Range(flags(generated, last.arg)))
    /\ last.op = "is_superseded" =>
          /\ \A y \in Variants :
                last.ret = Some(y)
                    <=> FlagSuperseded(y) \in Range(flags(generated, last.arg))
          /\ last.ret = None
                <=> \A f \in Range(flags(generated, last.arg)) :
                        f.tag # "Superseded"
    /\ last.op = "has_flag" =>
          (last.ret <=> last.arg[2] \in Range(flags(generated, last.arg[1])))

\* is_special has returned true for a currency that is special and no fund,
\* in a registry with a currency that is a fund and superseded
C19_Witness ==
    /\ last.op = "is_special"
    /\ last.ret
    /\ ~is_fund(generated, last.arg)
    /\ flags(generated, last.arg) = <<FlagSpecial>>
    /\ \E y \in Variants :
          /\ is_fund(generated, y)
          /\ is_superseded(generated, y).some

====
